---- MODULE Spec2Model ----
(***************************************************************************)
(* Model of the srdir output module of libsigrok (src/output/srdir.c).     *)
(*                                                                         *)
(* The module turns a feed of packets (META, LOGIC, ANALOG, END) into a    *)
(* directory holding "version", "metadata" and numbered chunk files.       *)
(* receive() is modelled statement group by statement group: the program   *)
(* counter pc follows the calls receive -> dir_create -> dir_append_queue  *)
(* / dir_append_analog_queue -> dir_append / dir_append_analog, so that    *)
(* the states inside the copy/flush loops are states of the model.         *)
(*                                                                         *)
(* Sample data is never inspected by the code, only copied.  Every input   *)
(* byte (float) therefore carries its position in the stream it belongs    *)
(* to, which makes any loss, duplication or reordering visible.            *)
(***************************************************************************)
EXTENDS Integers, Sequences, FiniteSets, TLC

(***************************************************************************)
(* Bounds of the model.                                                    *)
(***************************************************************************)
\* CHUNK_SIZE of the source is 4 MiB; the buffers of the model are scaled.
ScaledChunkSize == 8
\* Number of packets fed in a session.
MaxPackets == 3
\* Longest channel list of the layout model.
MaxChannels == 4
\* Largest number of logic channels of the sizing model.
MaxLogicChannels == 24

(***************************************************************************)
(* Program constants.                                                      *)
(***************************************************************************)
\* sizeof(float), srdir.c:232
SizeofFloat == 4
\* bits per byte: unit_size = (logic_channels + 8 - 1) / 8, srdir.c:213-215
BitsPerUnitByte == 8
\* #define CHUNK_SIZE (4 * 1024 * 1024), srdir.c:30
CHUNK_SIZE == 4 * 1024 * 1024

Min(a, b) == IF a < b THEN a ELSE b

Range(s) == {s[i] : i \in DOMAIN s}

(***************************************************************************)
(* Channels (struct sr_channel): type, enabled flag and stable index.      *)
(***************************************************************************)
ChannelKinds == {"L+", "L-", "A+", "A-"}

MkChannels(kinds) ==
    [i \in 1..Len(kinds) |->
        [type    |-> IF kinds[i] \in {"L+", "L-"} THEN "logic" ELSE "analog",
         enabled |-> kinds[i] \in {"L+", "A+"},
         index   |-> i - 1]]

\* nl logic channels, the first el of them enabled.
LogicKinds(nl, el) == [i \in 1..nl |-> IF i <= el THEN "L+" ELSE "L-"]

RECURSIVE SeqsUpTo(_, _)
SeqsUpTo(S, n) ==
    IF n = 0 THEN {<<>>}
    ELSE LET shorter == SeqsUpTo(S, n - 1)
         IN  shorter \cup {Append(s, x) : s \in shorter, x \in S}

\* Layouts of the session model: no channel at all; one enabled logic
\* channel (unit size 1); a disabled logic channel and an analog channel;
\* nine logic channels (unit size 2) with a disabled and an enabled analog
\* channel; two analog channels and no logic channel (unit size 0); an
\* analog channel declared before a logic channel.
Layouts ==
    {MkChannels(k) :
        k \in {<<>>,
                <<"L+">>,
                <<"L-", "A+">>,
                LogicKinds(BitsPerUnitByte + 1, 1) \o <<"A-", "A+">>,
                <<"A+", "A+">>,
                <<"A+", "L+">>}}

(***************************************************************************)
(* Channel layout, as dir_create() computes it (srdir.c:127-193).          *)
(***************************************************************************)
RECURSIVE CountChannels(_, _, _)
\* the counting loop of srdir.c:130-144
CountChannels(chs, type, onlyEnabled) ==
    IF chs = <<>> THEN 0
    ELSE (IF Head(chs).type = type /\ (Head(chs).enabled \/ ~onlyEnabled)
          THEN 1 ELSE 0) + CountChannels(Tail(chs), type, onlyEnabled)

logic_channels(chs) == CountChannels(chs, "logic", FALSE)
enabled_logic_channels(chs) == CountChannels(chs, "logic", TRUE)
enabled_analog_channels(chs) == CountChannels(chs, "analog", TRUE)

\* Variant: the first analog number follows the enabled logic channels only.
FirstAnalogIndex_Enabled(chs) ==
    IF enabled_logic_channels(chs) > 0
    THEN enabled_logic_channels(chs) + 1 ELSE 1

\* srdir.c:149-152
FirstAnalogIndex(chs) ==
    IF enabled_logic_channels(chs) > 0 THEN logic_channels(chs) + 1 ELSE 1

RECURSIVE AnalogIndexMap(_)
\* srdir.c:170-188: ch->index of the enabled analog channels, in list order
AnalogIndexMap(chs) ==
    IF chs = <<>> THEN <<>>
    ELSE (IF Head(chs).enabled /\ Head(chs).type = "analog"
          THEN <<Head(chs).index>> ELSE <<>>) \o AnalogIndexMap(Tail(chs))

\* Variant: an analog channel is recorded under its own index plus one.
ChannelKeys_ByIndex(chs, first, index) ==
    LET en == SelectSeq(chs, LAMBDA c : c.enabled)
    IN  [i \in 1..Len(en) |->
            [key   |-> IF en[i].type = "logic" THEN "probe" ELSE "analog",
             nr    |-> en[i].index + 1,
             index |-> en[i].index]]

RECURSIVE ChannelKeys(_, _, _)
\* srdir.c:170-193: the probe<N> / analog<N> keys of the metadata, as
\* records [key, nr, index] in the order they are set
ChannelKeys(chs, first, index) ==
    IF chs = <<>> THEN <<>>
    ELSE LET ch == Head(chs) IN
         IF ~ch.enabled THEN ChannelKeys(Tail(chs), first, index)
         ELSE IF ch.type = "logic"
         THEN <<[key |-> "probe", nr |-> ch.index + 1, index |-> ch.index]>>
              \o ChannelKeys(Tail(chs), first, index)
         ELSE <<[key |-> "analog", nr |-> first + index, index |-> ch.index]>>
              \o ChannelKeys(Tail(chs), first, index + 1)

\* srdir.c:213-215
UnitSize(chs) == (logic_channels(chs) + BitsPerUnitByte - 1) \div BitsPerUnitByte

\* Variant: the capacity is the byte size, whatever the sample width.
LogicAllocSize_Bytes(chunk, unit_size) == chunk

\* srdir.c:212,219-221: capacity of the logic buffer, in samples
LogicAllocSize(chunk, unit_size) ==
    IF unit_size /= 0 THEN chunk \div unit_size ELSE chunk

\* srdir.c:228,232-233: capacity of an analog buffer, in floats
AnalogAllocSize(chunk) == chunk \div SizeofFloat

\* Variant: "total probes" counts the enabled logic channels only.
Metadata_EnabledProbes(chs, rate, unit_size) ==
    [state        |-> "written",
     capturefile  |-> IF enabled_logic_channels(chs) > 0 THEN "logic-1" ELSE "",
     total_probes |-> IF enabled_logic_channels(chs) > 0
                      THEN enabled_logic_channels(chs) ELSE -1,
     samplerate   |-> rate,
     total_analog |-> enabled_analog_channels(chs),
     channels     |-> ChannelKeys(chs, FirstAnalogIndex(chs), 0),
     unitsize     |-> IF unit_size > 0 THEN unit_size ELSE -1]

\* srdir.c:120-164,238-242: the key file handed to g_key_file_to_data()
Metadata(chs, rate, unit_size) ==
    [state        |-> "written",
     capturefile  |-> IF enabled_logic_channels(chs) > 0 THEN "logic-1" ELSE "",
     total_probes |-> IF enabled_logic_channels(chs) > 0
                      THEN logic_channels(chs) ELSE -1,
     samplerate   |-> rate,
     total_analog |-> enabled_analog_channels(chs),
     channels     |-> ChannelKeys(chs, FirstAnalogIndex(chs), 0),
     unitsize     |-> IF unit_size > 0 THEN unit_size ELSE -1]

(***************************************************************************)
(* State.                                                                  *)
(***************************************************************************)
VARIABLES
    channels,            \* o->sdi->channels
    samplerate,          \* outc->samplerate
    dir_created,         \* outc->dir_created
    first_analog_index,  \* outc->first_analog_index
    analog_ch_count,     \* outc->analog_ch_count
    analog_index_map,    \* outc->analog_index_map
    logic_buff,          \* outc->logic_buff
    analog_buff,         \* outc->analog_buff[]
    fs,                  \* the directory: dir, cwd, version, metadata
    writes,              \* every fopen/fwrite of a chunk file, in order
    pc,                  \* position inside receive()
    packet,              \* the packet receive() is working on
    loc,                 \* locals of the queue functions
    ret,                 \* return value of receive()
    pre,                 \* the session state when receive() was entered
    hist                 \* what has been fed so far: logic bytes and analog
                         \* samples accepted, whether a logic block was not
                         \* a whole number of samples, whether a sample
                         \* packet was fed, packets fed, whether the
                         \* environment failed, calls of dir_create()

vars == <<channels, samplerate, dir_created, first_analog_index,
          analog_ch_count, analog_index_map, logic_buff, analog_buff, fs,
          writes, pc, packet, loc, ret, pre, hist>>

outcVars == <<samplerate, dir_created, first_analog_index, analog_ch_count,
              analog_index_map, logic_buff, analog_buff>>

Zeros(n) == [i \in 1..n |-> 0]

\* g_malloc0(sizeof(*outc)), srdir.c:65
ZeroLogicBuff ==
    [unit_size |-> 0, alloc_size |-> 0, samples |-> <<>>, fill_size |-> 0,
     next_chunk_num |-> 0]
ZeroAnalogBuff ==
    [alloc_size |-> 0, samples |-> <<>>, fill_size |-> 0, next_chunk_num |-> 0]

NoPacket == [type |-> "none"]
NoMetadata == [state |-> "absent"]
NoLoc == [unitsize |-> 0, length |-> 0, flush |-> FALSE, send_size |-> 0,
          rdptr |-> 0, remain |-> 0, idx |-> 0, nr |-> 0, values |-> <<>>]
NoPre == [taken |-> FALSE]

\* the session state a handler may change, for before/after comparison
Snapshot ==
    [taken |-> TRUE, samplerate |-> samplerate, dir_created |-> dir_created,
     first_analog_index |-> first_analog_index,
     analog_ch_count |-> analog_ch_count,
     analog_index_map |-> analog_index_map,
     logic_buff |-> logic_buff, analog_buff |-> analog_buff, fs |-> fs,
     nwrites |-> Len(writes)]

\* the file system before the session touches it
InitialFs ==
    [dir |-> FALSE, cwd |-> FALSE, version |-> "absent", metadata |-> NoMetadata]

\* init(), srdir.c:54-70: the context is zeroed; chs is the device's list
InitState(chs) ==
    /\ channels = chs
    /\ samplerate = 0
    /\ dir_created = FALSE
    /\ first_analog_index = 0
    /\ analog_ch_count = 0
    /\ analog_index_map = <<>>
    /\ logic_buff = ZeroLogicBuff
    /\ analog_buff = <<>>
    /\ fs = InitialFs
    /\ writes = <<>>
    /\ pc = "idle"
    /\ packet = NoPacket
    /\ loc = NoLoc
    /\ ret = "none"
    /\ pre = NoPre
    /\ hist = [logic_fed |-> 0,
               analog_fed |-> [c \in 0..(Len(channels) - 1) |-> 0],
               ragged |-> FALSE, sampled |-> FALSE,
               n_packets |-> 0, failed |-> FALSE, n_create |-> 0]

Init == \E chs \in Layouts : InitState(chs)


(***************************************************************************)
(* Inputs.                                                                 *)
(***************************************************************************)
\* Sample rates: 0 (not known) or 1.
Rates == {0, 1}

\* struct sr_config entries of a META packet
MetaConfigs ==
    SeqsUpTo([key : {"samplerate", "other"}, value : Rates], 2)

\* logic->unitsize: what the device's channels call for, or one more
UnitSizes == {UnitSize(channels), UnitSize(channels) + 1}

\* logic->length, in bytes: an empty block, blocks of one and of three
\* bytes, and a long block of which two exceed the buffer, whatever the
\* unit size
LongLogicLen == ScaledChunkSize - 2
LogicLengths == {0, 1, 3, LongLogicLen}

\* analog->num_samples: an empty block, a single sample, and a long block
\* that fills the buffer more than twice
LongAnalogLen == 2 * AnalogAllocSize(ScaledChunkSize) + 1
AnalogLengths == {0, 1, LongAnalogLen}

\* The bytes of a logic block: the i-th byte of the block is the
\* (fed + i)-th byte ever fed, as a uint8_t.
LogicData(fed, length) == [i \in 1..length |-> (fed + i) % 256]

\* The raw samples of an analog block of channel c, tagged by channel and
\* position in that channel's stream.
RawSample(c, p) == c * (MaxPackets * LongAnalogLen + 1) + p
AnalogData(c, fed, n) == [i \in 1..n |-> RawSample(c, fed + i)]

\* meaning->channels of an analog packet, as the ch->index of each channel:
\* no channel, one channel (an analog channel or the first channel of the
\* device), or the first two of these
ChannelLists ==
    LET ix == {channels[i].index : i \in
                 {j \in DOMAIN channels : j = 1 \/ channels[j].type = "analog"}}
        lo == CHOOSE c \in ix : \A d \in ix : c <= d
        hi == CHOOSE c \in ix : \A d \in ix : c >= d
    IN  {<<>>} \cup {<<c>> : c \in ix}
        \cup (IF Cardinality(ix) > 1 THEN {<<lo, hi>>} ELSE {})

(***************************************************************************)
(* External services.                                                      *)
(***************************************************************************)
\* sr_analog_to_float(): the packet's samples as floats.  The conversion
\* applies the encoding's scale and offset to every sample.
sr_analog_to_float(raw) == [i \in 1..Len(raw) |-> 2 * raw[i] + 1]

\* memcpy(dst + off, src + rd, n), on 1-based sequences.  A copy that would
\* run past the end of dst or src is cut at the end of the array.
MemCopy(dst, off, src, rd, n) ==
    [i \in 1..Len(dst) |->
        IF i > off /\ i <= off + n
        THEN (IF rd + (i - off) \in DOMAIN src THEN src[rd + (i - off)] ELSE 0)
        ELSE dst[i]]

\* alloc_size - fill_size in size_t: a negative difference wraps around to
\* a value larger than any sample count.
SizeSub(a, b) == IF a >= b THEN a - b ELSE (2 ^ 30) + (a - b)

Prefix(s, n) == [i \in 1..Min(n, Len(s)) |-> s[i]]

\* outcomes of fopen()/fwrite() on a chunk file
WriteOutcomes == {"ok", "open", "write"}

\* The environment (file system, allocator, conversion) fails at most once
\* in a session.
MayFail == ~hist.failed
Outcomes(all) == IF MayFail THEN all ELSE {"ok"}
Failed(h, o) ==
    IF o \in {"ok", "empty"} THEN h ELSE [h EXCEPT !.failed = TRUE]

\* the caller feeds at most MaxPackets packets
MayFeed == hist.n_packets < MaxPackets
Fed(h) == [h EXCEPT !.n_packets = @ + 1]

(***************************************************************************)
(* The chunk writers.  Every call is logged in `writes` with the file      *)
(* name (base, channel number, chunk number), the bytes handed over and    *)
(* what became of the call:                                                *)
(*   "ok"     the file was written and closed,                             *)
(*   "open"   fopen() failed, no file,                                     *)
(*   "write"  fwrite() failed, the file exists with part of the data,      *)
(*   "empty"  dir_append() returned at once because length was 0.          *)
(***************************************************************************)
\* dir_append(), srdir.c:269-303.  length is in bytes.
dir_append(lb, length, outcome) ==
    LET call == [base |-> "logic-1", ch_nr |-> 0, num |-> lb.next_chunk_num,
                 data |-> Prefix(lb.samples, length), length |-> length,
                 status |-> IF length = 0 THEN "empty" ELSE outcome]
    IN  [ret   |-> IF length = 0 \/ outcome = "ok" THEN "SR_OK" ELSE "SR_ERR",
         buff  |-> IF length /= 0 /\ outcome = "ok"
                   THEN [lb EXCEPT !.next_chunk_num = @ + 1] ELSE lb,
         call  |-> call]

\* Variant: a failed write is not reported to the caller.
dir_append_analog_Silent(ab, count, ch_nr, outcome) ==
    [ret   |-> "SR_OK",
     buff  |-> [ab EXCEPT !.next_chunk_num = @ + 1],
     call  |-> [base |-> "analog-1", ch_nr |-> ch_nr,
                num |-> ab.next_chunk_num,
                data |-> Prefix(ab.samples, count), length |-> count,
                status |-> outcome]]

\* dir_append_analog(), srdir.c:383-419.  count is in floats; fwrite() of
\* zero bytes reports 0 items written, which the code takes for a failure.
dir_append_analog(ab, count, ch_nr, outcome) ==
    LET status == IF count = 0 /\ outcome = "ok" THEN "write" ELSE outcome
        call == [base |-> "analog-1", ch_nr |-> ch_nr,
                 num |-> ab.next_chunk_num,
                 data |-> Prefix(ab.samples, count), length |-> count,
                 status |-> status]
    IN  [ret   |-> IF status = "ok" THEN "SR_OK" ELSE "SR_ERR",
         buff  |-> [ab EXCEPT !.next_chunk_num = @ + 1],
         call  |-> call]

(***************************************************************************)
(* Entry of dir_append_queue(), srdir.c:327-339, and of                    *)
(* dir_append_analog_queue(), srdir.c:443-492.                             *)
(***************************************************************************)
\* n is a multiple of u
Multiple(n, u) == IF u = 0 THEN n = 0 ELSE n % u = 0

\* Variant: no unit size check.
UnitSizeMismatch_Never(length, unitsize, unit_size) == FALSE

\* srdir.c:329: if (length && unitsize != buff->unit_size)
UnitSizeMismatch(length, unitsize, unit_size) ==
    length /= 0 /\ unitsize /= unit_size

\* Variant: a trailing partial sample counts as a sample.
LogicSendSize_RoundUp(unit_size, length) ==
    IF unit_size /= 0 THEN (length + unit_size - 1) \div unit_size ELSE 0

\* srdir.c:339: send_size = buff->unit_size ? length / buff->unit_size : 0
LogicSendSize(unit_size, length) ==
    IF unit_size /= 0 THEN length \div unit_size ELSE 0

\* srdir.c:327-339: the unit size check and the sample count.  l holds the
\* arguments (unitsize, length, flush), h is the history to extend.
LogicEntry(h, l) ==
    IF UnitSizeMismatch(l.length, l.unitsize, logic_buff.unit_size)
    THEN /\ ret' = "SR_ERR_ARG"
         /\ pc' = "ret"
         /\ loc' = l
         /\ hist' = h
    ELSE /\ loc' = [l EXCEPT !.rdptr = 0,
                             !.send_size = LogicSendSize(logic_buff.unit_size,
                                                         l.length)]
         /\ hist' = [h EXCEPT
                       !.logic_fed = @ + l.length,
                       !.ragged = @ \/ ~Multiple(l.length, logic_buff.unit_size)]
         /\ pc' = "lq_loop"
         /\ ret' = ret

\* Variant: a channel that is not in the map is given slot 0.
LookupIndex_Default(map, count, index) ==
    IF \E i \in 0..(count - 1) : map[i + 1] = index
    THEN CHOOSE i \in 0..(count - 1) :
            /\ map[i + 1] = index
            /\ \A j \in 0..(i - 1) : map[j + 1] /= index
    ELSE IF count > 0 THEN 0 ELSE count

\* Variant: every mapped channel is given slot 0.
LookupIndex_First(map, count, index) ==
    IF \E i \in 0..(count - 1) : map[i + 1] = index THEN 0 ELSE count

\* srdir.c:468-472: the slot of ch->index in analog_index_map, 0-based;
\* analog_ch_count when the index is not in the map
LookupIndex(map, count, index) ==
    IF \E i \in 0..(count - 1) : map[i + 1] = index
    THEN CHOOSE i \in 0..(count - 1) :
            /\ map[i + 1] = index
            /\ \A j \in 0..(i - 1) : map[j + 1] /= index
    ELSE count

\* outcomes of g_try_malloc0() and sr_analog_to_float(), srdir.c:478-485
ConvertOutcomes == {"ok", "malloc", "convert"}

\* srdir.c:446 and 461-492: the END flush call, or the channel lookup and
\* the conversion of the packet's samples.  pk is the packet, l the locals
\* so far, h the history to extend.
AnalogEntry(h, pk, l, outcome) ==
    LET idx == LookupIndex(analog_index_map, analog_ch_count, pk.channels[1])
        reject == IF Len(pk.channels) /= 1 THEN "SR_ERR"
                  ELSE IF idx = analog_ch_count THEN "SR_ERR_ARG"
                  \* g_try_malloc0(0) returns NULL
                  ELSE IF pk.num_samples = 0 THEN "SR_ERR_MALLOC"
                  ELSE "SR_OK"
    IN  IF pk.type = "end"
        THEN /\ outcome = "ok"
             /\ loc' = [l EXCEPT !.idx = 0]
             /\ pc' = "aq_end"
             /\ ret' = ret
             /\ hist' = h
        ELSE IF reject /= "SR_OK"
        THEN /\ outcome = "ok"
             /\ ret' = reject
             /\ pc' = "ret"
             /\ loc' = l
             /\ hist' = h
        ELSE IF outcome /= "ok"
        THEN /\ MayFail
             /\ ret' = IF outcome = "malloc" THEN "SR_ERR_MALLOC" ELSE "SR_ERR"
             /\ pc' = "ret"
             /\ loc' = l
             /\ hist' = Failed(h, outcome)
        ELSE /\ loc' = [l EXCEPT !.idx = idx,
                                 !.nr = first_analog_index + idx,
                                 !.values = sr_analog_to_float(pk.data),
                                 !.rdptr = 0,
                                 !.send_size = pk.num_samples]
             /\ hist' = [h EXCEPT !.analog_fed[pk.channels[1]] =
                                      @ + pk.num_samples]
             /\ pc' = "aq_loop"
             /\ ret' = ret

(***************************************************************************)
(* receive(), srdir.c:528-592: entry and dispatch on the packet type.      *)
(* When the directory exists already, the entry of the queue function is   *)
(* part of the step.                                                       *)
(***************************************************************************)
RECURSIVE MetaSamplerate(_, _)
\* srdir.c:548-553
MetaSamplerate(cfg, rate) ==
    IF cfg = <<>> THEN rate
    ELSE MetaSamplerate(Tail(cfg),
             IF Head(cfg).key = "samplerate" THEN Head(cfg).value ELSE rate)

\* case SR_DF_META, srdir.c:546-554
ReceiveMeta(cfg) ==
    /\ pc = "idle"
    /\ MayFeed
    /\ pre' = Snapshot
    /\ packet' = [type |-> "meta"]
    /\ samplerate' = MetaSamplerate(cfg, samplerate)
    /\ ret' = "SR_OK"
    /\ pc' = "ret"
    /\ hist' = Fed(hist)
    /\ UNCHANGED <<channels, dir_created, first_analog_index, analog_ch_count,
                   analog_index_map, logic_buff, analog_buff, fs, writes, loc>>

\* Variant: dir_create() is called for every sample packet.
NeedCreate_Always(created) == TRUE

\* srdir.c:557 and 569: if (!outc->dir_created)
NeedCreate(created) == ~created

Sampled(h) == [Fed(h) EXCEPT !.sampled = TRUE]

\* case SR_DF_LOGIC, srdir.c:555-563
ReceiveLogic(unitsize, length) ==
    /\ pc = "idle"
    /\ MayFeed
    /\ pre' = Snapshot
    /\ packet' = [type |-> "logic", unitsize |-> unitsize, length |-> length,
                  data |-> LogicData(hist.logic_fed, length)]
    /\ LET args == [NoLoc EXCEPT !.unitsize = unitsize, !.length = length,
                                 !.flush = FALSE]
       IN  IF ~NeedCreate(dir_created)
           THEN LogicEntry(Sampled(hist), args)
           ELSE /\ pc' = "dir_create"
                /\ loc' = args
                /\ hist' = Sampled(hist)
                /\ ret' = ret
    /\ UNCHANGED <<channels, outcVars, fs, writes>>

\* case SR_DF_ANALOG, srdir.c:567-575
ReceiveAnalog(chans, n, outcome) ==
    /\ pc = "idle"
    /\ MayFeed
    /\ pre' = Snapshot
    /\ LET c == IF chans = <<>> THEN 0 ELSE chans[1]
           fed == IF chans = <<>> THEN 0 ELSE hist.analog_fed[c]
           pk == [type |-> "analog", channels |-> chans, num_samples |-> n,
                  data |-> AnalogData(c, fed, n)]
       IN  /\ packet' = pk
           /\ IF ~NeedCreate(dir_created)
              THEN AnalogEntry(Sampled(hist), pk, NoLoc, outcome)
              ELSE /\ outcome = "ok"
                   /\ pc' = "dir_create"
                   /\ loc' = NoLoc
                   /\ hist' = Sampled(hist)
                   /\ ret' = ret
    /\ UNCHANGED <<channels, outcVars, fs, writes>>

\* Variant: END creates the directory when no sample packet did.
ReceiveEnd_Eager ==
    /\ pc = "idle"
    /\ MayFeed
    /\ pre' = Snapshot
    /\ packet' = [type |-> "end"]
    /\ LET args == [NoLoc EXCEPT !.unitsize = 0, !.length = 0, !.flush = TRUE]
       IN  IF dir_created
           THEN LogicEntry(Fed(hist), args)
           ELSE /\ pc' = "dir_create"
                /\ ret' = ret
                /\ loc' = args
                /\ hist' = Fed(hist)
    /\ UNCHANGED <<channels, outcVars, fs, writes>>

\* case SR_DF_END, srdir.c:579-588: dir_append_queue(o, NULL, 0, 0, TRUE)
ReceiveEnd ==
    /\ pc = "idle"
    /\ MayFeed
    /\ pre' = Snapshot
    /\ packet' = [type |-> "end"]
    /\ LET args == [NoLoc EXCEPT !.unitsize = 0, !.length = 0, !.flush = TRUE]
       IN  IF dir_created
           THEN LogicEntry(Fed(hist), args)
           ELSE /\ pc' = "ret"
                /\ ret' = "SR_OK"
                /\ loc' = args
                /\ hist' = Fed(hist)
    /\ UNCHANGED <<channels, outcVars, fs, writes>>

\* receive() returns; the caller may feed the next packet
Return ==
    /\ pc = "ret"
    /\ pc' = "idle"
    /\ packet' = NoPacket
    /\ loc' = NoLoc
    /\ ret' = "none"
    /\ pre' = NoPre
    /\ UNCHANGED <<channels, outcVars, fs, writes, hist>>

(***************************************************************************)
(* dir_create(), srdir.c:72-257.                                           *)
(***************************************************************************)
\* The steps of dir_create() that can fail, in program order.
CreateSteps ==
    <<"mkdir", "chdir", "version_open", "version_write", "malloc_logic",
      "malloc_analog", "metadata_open", "metadata_write", "ok">>

StepNo(step) == CHOOSE i \in DOMAIN CreateSteps : CreateSteps[i] = step

\* dir_create() got past `step`, given that it ends at `outcome`
Past(step, outcome) == StepNo(outcome) > StepNo(step)

\* srdir.c:212-223, with g_try_malloc0() failing or not
InitLogicBuff(chs, chunk, outcome) ==
    IF outcome = "malloc_logic"
    THEN [ZeroLogicBuff EXCEPT !.unit_size = UnitSize(chs)]
    ELSE [unit_size |-> UnitSize(chs),
          alloc_size |-> LogicAllocSize(chunk, UnitSize(chs)),
          samples |-> Zeros(chunk),
          fill_size |-> 0,
          next_chunk_num |-> 1]

\* srdir.c:225-236: the buffers before index `stop` are set up
InitAnalogBuff(count, chunk, stop) ==
    [i \in 1..count |->
        IF i - 1 < stop
        THEN [alloc_size |-> AnalogAllocSize(chunk), samples |-> Zeros(chunk \div SizeofFloat),
              fill_size |-> 0, next_chunk_num |-> 1]
        ELSE ZeroAnalogBuff]

\* srdir.c:99-117,245-253: the directory, "version" and "metadata"
CreateFs(chs, rate, outcome) ==
    [dir      |-> Past("mkdir", outcome),
     cwd      |-> Past("chdir", outcome),
     version  |-> IF Past("version_write", outcome) THEN "2"
                  ELSE IF outcome = "version_write" THEN "partial"
                  ELSE "absent",
     metadata |-> IF outcome = "ok" THEN Metadata(chs, rate, UnitSize(chs))
                  ELSE IF outcome = "metadata_write" THEN [state |-> "partial"]
                  ELSE NoMetadata]

CreateRet(outcome) ==
    IF outcome = "ok" THEN "SR_OK"
    ELSE IF outcome \in {"malloc_logic", "malloc_analog"} THEN "SR_ERR_MALLOC"
    ELSE "SR_ERR"

\* dir_create() and the assignment of dir_created, srdir.c:558-560.
\* drv is the sample rate sr_config_get() reports, -1 when it fails;
\* stop is the analog buffer whose allocation fails, if one does.
DirCreate(outcome, drv, stop) ==
    /\ pc = "dir_create"
    /\ IF fs.dir THEN outcome = "mkdir"
       ELSE outcome = "ok" \/ MayFail
    /\ IF samplerate = 0 THEN drv \in {-1} \cup Rates ELSE drv = -1
    /\ IF outcome = "malloc_analog"
       THEN stop < enabled_analog_channels(channels)
       ELSE stop = enabled_analog_channels(channels)
    /\ LET rate == IF samplerate = 0 /\ drv >= 0 THEN drv ELSE samplerate
       IN  /\ samplerate' = rate
           /\ fs' = IF fs.dir THEN fs ELSE CreateFs(channels, rate, outcome)
    /\ IF Past("version_write", outcome)
       THEN /\ first_analog_index' = FirstAnalogIndex(channels)
            /\ analog_ch_count' = enabled_analog_channels(channels)
            /\ analog_index_map' = AnalogIndexMap(channels)
            /\ logic_buff' = InitLogicBuff(channels, ScaledChunkSize, outcome)
            /\ analog_buff' =
                  IF outcome = "malloc_logic" THEN analog_buff
                  ELSE InitAnalogBuff(enabled_analog_channels(channels),
                                      ScaledChunkSize, stop)
       ELSE UNCHANGED <<first_analog_index, analog_ch_count, analog_index_map,
                        logic_buff, analog_buff>>
    /\ dir_created' = (outcome = "ok")
    /\ hist' = [Failed(hist, IF fs.dir THEN "ok" ELSE outcome)
                   EXCEPT !.n_create = @ + 1]
    /\ IF outcome = "ok"
       THEN /\ pc' = IF packet.type = "logic" THEN "append_queue"
                     ELSE "append_analog_queue"
            /\ ret' = ret
       ELSE /\ pc' = "ret"
            /\ ret' = CreateRet(outcome)
    /\ UNCHANGED <<channels, writes, packet, loc, pre>>


(***************************************************************************)
(* dir_append_queue(), srdir.c:316-371.                                    *)
(***************************************************************************)
\* Variant: everything left is copied, whatever room there is.
CopySize_All(send_size, remain) == send_size

\* srdir.c:344 and 497: copy_size = MIN(send_size, remain)
CopySize(send_size, remain) == Min(send_size, remain)

\* Variant: the write position counts samples, not array elements.
WritePos_Samples(fill_size, unit) == fill_size

\* srdir.c:343 and 496: the write position, in array elements
WritePos(fill_size, unit) == fill_size * unit

\* Variant: the buffer is flushed as soon as it is full.
BufferExhausted_Full(send_size, remain) == remain = 0

\* srdir.c:351 and 504: if (send_size && !remain)
BufferExhausted(send_size, remain) == send_size /= 0 /\ remain = 0

\* Variant: a flush is made whenever the caller asks, empty buffer or not.
FlushWanted_Always(flush, fill_size) == flush

\* srdir.c:362 and 518: if (flush && buff->fill_size)
FlushWanted(flush, fill_size) == flush /\ fill_size /= 0

\* Variant: the END loop passes over every buffer.
EndSkip_All(fill_size) == TRUE

\* srdir.c:450: if (!buff->fill_size) continue
EndSkip(fill_size) == fill_size = 0

\* dir_append_queue() is entered after dir_create(), srdir.c:562
LogicQueueEnter ==
    /\ pc = "append_queue"
    /\ LogicEntry(hist, loc)
    /\ UNCHANGED <<channels, outcVars, fs, writes, packet, pre>>

\* srdir.c:340-350: while (send_size), copy what fits
LogicCopy ==
    /\ pc = "lq_loop"
    /\ loc.send_size /= 0
    /\ LET remain == SizeSub(logic_buff.alloc_size, logic_buff.fill_size)
           copy_size == CopySize(loc.send_size, remain)
           unit == logic_buff.unit_size
       IN  IF remain /= 0
           THEN /\ logic_buff' =
                     [logic_buff EXCEPT
                        !.fill_size = @ + copy_size,
                        !.samples = MemCopy(@, WritePos(logic_buff.fill_size, unit),
                                            packet.data, loc.rdptr,
                                            copy_size * unit)]
                /\ loc' = [loc EXCEPT !.send_size = @ - copy_size,
                                      !.rdptr = @ + copy_size * unit,
                                      !.remain = remain - copy_size]
           ELSE /\ logic_buff' = logic_buff
                /\ loc' = [loc EXCEPT !.remain = remain]
    /\ pc' = "lq_full"
    /\ UNCHANGED <<channels, samplerate, dir_created, first_analog_index,
                   analog_ch_count, analog_index_map, analog_buff, fs, writes,
                   packet, ret, pre, hist>>

\* srdir.c:351-358: flush the full buffer when samples are left to copy
LogicFlushFull(outcome) ==
    /\ pc = "lq_full"
    /\ IF BufferExhausted(loc.send_size, loc.remain)
       THEN LET r == dir_append(logic_buff,
                         logic_buff.fill_size * logic_buff.unit_size, outcome)
            IN  /\ outcome \in Outcomes(WriteOutcomes)
                /\ writes' = Append(writes, r.call)
                /\ hist' = Failed(hist, r.call.status)
                /\ IF r.ret /= "SR_OK"
                   THEN /\ logic_buff' = r.buff
                        /\ ret' = r.ret
                        /\ pc' = "ret"
                   ELSE /\ logic_buff' = [r.buff EXCEPT !.fill_size = 0]
                        /\ ret' = ret
                        /\ pc' = "lq_loop"
       ELSE /\ outcome = "ok"
            /\ pc' = "lq_loop"
            /\ UNCHANGED <<logic_buff, writes, hist, ret>>
    /\ UNCHANGED <<channels, samplerate, dir_created, first_analog_index,
                   analog_ch_count, analog_index_map, analog_buff, fs, packet,
                   loc, pre>>

\* srdir.c:361-370 and the return to receive(), srdir.c:564-566, 582-584
LogicFinalFlush(outcome) ==
    /\ pc = "lq_loop"
    /\ loc.send_size = 0
    /\ IF FlushWanted(loc.flush, logic_buff.fill_size)
       THEN LET r == dir_append(logic_buff,
                         logic_buff.fill_size * logic_buff.unit_size, outcome)
            IN  /\ outcome \in Outcomes(WriteOutcomes)
                /\ writes' = Append(writes, r.call)
                /\ hist' = Failed(hist, r.call.status)
                /\ IF r.ret /= "SR_OK"
                   THEN /\ logic_buff' = r.buff
                        /\ ret' = r.ret
                        /\ pc' = "ret"
                   ELSE /\ logic_buff' = [r.buff EXCEPT !.fill_size = 0]
                        /\ ret' = IF packet.type = "end" THEN ret ELSE "SR_OK"
                        /\ pc' = IF packet.type = "end"
                                 THEN "append_analog_queue" ELSE "ret"
       ELSE /\ outcome = "ok"
            /\ ret' = IF packet.type = "end" THEN ret ELSE "SR_OK"
            /\ pc' = IF packet.type = "end" THEN "append_analog_queue" ELSE "ret"
            /\ UNCHANGED <<logic_buff, writes, hist>>
    /\ UNCHANGED <<channels, samplerate, dir_created, first_analog_index,
                   analog_ch_count, analog_index_map, analog_buff, fs, packet,
                   loc, pre>>


(***************************************************************************)
(* dir_append_analog_queue(), srdir.c:430-526.                             *)
(***************************************************************************)
\* dir_append_analog_queue() is entered after dir_create(), srdir.c:575,
\* or after the final flush of the logic buffer, srdir.c:584
AnalogQueueEnter(outcome) ==
    /\ pc = "append_analog_queue"
    /\ AnalogEntry(hist, packet, loc, outcome)
    /\ UNCHANGED <<channels, outcVars, fs, writes, packet, pre>>

\* srdir.c:447-457: one pass of the END loop over the analog buffers
AnalogEndFlush(outcome) ==
    /\ pc = "aq_end"
    /\ loc.idx < analog_ch_count
    /\ LET buff == analog_buff[loc.idx + 1]
           nr == first_analog_index + loc.idx
           r == dir_append_analog(buff, buff.fill_size, nr, outcome)
       IN  IF EndSkip(buff.fill_size)
           THEN /\ outcome = "ok"
                /\ loc' = [loc EXCEPT !.idx = @ + 1]
                /\ pc' = "aq_end"
                /\ UNCHANGED <<analog_buff, writes, hist, ret>>
           ELSE /\ outcome \in Outcomes(WriteOutcomes)
                /\ writes' = Append(writes, r.call)
                /\ hist' = Failed(hist, r.call.status)
                /\ IF r.ret /= "SR_OK"
                   THEN /\ analog_buff' =
                             [analog_buff EXCEPT ![nr - first_analog_index + 1] = r.buff]
                        /\ ret' = r.ret
                        /\ pc' = "ret"
                        /\ loc' = loc
                   ELSE /\ analog_buff' =
                             [analog_buff EXCEPT ![nr - first_analog_index + 1] =
                                 [r.buff EXCEPT !.fill_size = 0]]
                        /\ ret' = ret
                        /\ pc' = "aq_end"
                        /\ loc' = [loc EXCEPT !.idx = @ + 1]
    /\ UNCHANGED <<channels, samplerate, dir_created, first_analog_index,
                   analog_ch_count, analog_index_map, logic_buff, fs, packet,
                   pre>>

\* srdir.c:447,458 and 586-591: the END loop is over, receive() returns
AnalogEndDone ==
    /\ pc = "aq_end"
    /\ loc.idx >= analog_ch_count
    /\ ret' = "SR_OK"
    /\ pc' = "ret"
    /\ UNCHANGED <<channels, outcVars, fs, writes, packet, loc, pre, hist>>

\* srdir.c:493-503: while (send_size), copy what fits
AnalogCopy ==
    /\ pc = "aq_loop"
    /\ loc.send_size /= 0
    /\ LET buff == analog_buff[loc.idx + 1]
           remain == SizeSub(buff.alloc_size, buff.fill_size)
           copy_size == CopySize(loc.send_size, remain)
       IN  IF remain /= 0
           THEN /\ analog_buff' =
                     [analog_buff EXCEPT ![loc.idx + 1] =
                        [buff EXCEPT
                           !.fill_size = @ + copy_size,
                           !.samples = MemCopy(@, WritePos(buff.fill_size, 1),
                                               loc.values, loc.rdptr,
                                               copy_size)]]
                /\ loc' = [loc EXCEPT !.send_size = @ - copy_size,
                                      !.rdptr = @ + copy_size,
                                      !.remain = remain - copy_size]
           ELSE /\ analog_buff' = analog_buff
                /\ loc' = [loc EXCEPT !.remain = remain]
    /\ pc' = "aq_full"
    /\ UNCHANGED <<channels, samplerate, dir_created, first_analog_index,
                   analog_ch_count, analog_index_map, logic_buff, fs, writes,
                   packet, ret, pre, hist>>

\* srdir.c:504-513: flush the full buffer when samples are left to copy
AnalogFlushFull(outcome) ==
    /\ pc = "aq_full"
    /\ LET buff == analog_buff[loc.idx + 1]
           r == dir_append_analog(buff, buff.fill_size, loc.nr, outcome)
           slot == loc.nr - first_analog_index + 1
       IN  IF BufferExhausted(loc.send_size, loc.remain)
           THEN /\ outcome \in Outcomes(WriteOutcomes)
                /\ writes' = Append(writes, r.call)
                /\ hist' = Failed(hist, r.call.status)
                /\ IF r.ret /= "SR_OK"
                   THEN /\ analog_buff' = [analog_buff EXCEPT ![slot] = r.buff]
                        /\ ret' = r.ret
                        /\ pc' = "ret"
                   ELSE /\ analog_buff' =
                             [analog_buff EXCEPT ![slot] =
                                 [r.buff EXCEPT !.fill_size = 0]]
                        /\ ret' = ret
                        /\ pc' = "aq_loop"
           ELSE /\ outcome = "ok"
                /\ pc' = "aq_loop"
                /\ UNCHANGED <<analog_buff, writes, hist, ret>>
    /\ UNCHANGED <<channels, samplerate, dir_created, first_analog_index,
                   analog_ch_count, analog_index_map, logic_buff, fs, packet,
                   loc, pre>>

\* srdir.c:515-525 and the return to receive(), srdir.c:576-578
AnalogFinalFlush(outcome) ==
    /\ pc = "aq_loop"
    /\ loc.send_size = 0
    /\ LET buff == analog_buff[loc.idx + 1]
           r == dir_append_analog(buff, buff.fill_size, loc.nr, outcome)
           slot == loc.nr - first_analog_index + 1
       IN  IF FlushWanted(loc.flush, buff.fill_size)
           THEN /\ outcome \in Outcomes(WriteOutcomes)
                /\ writes' = Append(writes, r.call)
                /\ hist' = Failed(hist, r.call.status)
                /\ analog_buff' =
                      [analog_buff EXCEPT ![slot] =
                          IF r.ret = "SR_OK" THEN [r.buff EXCEPT !.fill_size = 0]
                          ELSE r.buff]
                /\ ret' = r.ret
           ELSE /\ outcome = "ok"
                /\ ret' = "SR_OK"
                /\ UNCHANGED <<analog_buff, writes, hist>>
    /\ pc' = "ret"
    /\ UNCHANGED <<channels, samplerate, dir_created, first_analog_index,
                   analog_ch_count, analog_index_map, logic_buff, fs, packet,
                   loc, pre>>

(***************************************************************************)
(* The session: packets are fed one at a time, each handled to the end.    *)
(***************************************************************************)
Next ==
    \/ \E cfg \in MetaConfigs : ReceiveMeta(cfg)
    \/ \E u \in UnitSizes : \E n \in LogicLengths : ReceiveLogic(u, n)
    \/ \E chans \in ChannelLists : \E n \in AnalogLengths :
          \E o \in ConvertOutcomes : ReceiveAnalog(chans, n, o)
    \/ ReceiveEnd
    \/ \E o \in DOMAIN CreateSteps : \E drv \in {-1} \cup Rates :
          \E stop \in 0..Len(channels) : DirCreate(CreateSteps[o], drv, stop)
    \/ LogicQueueEnter
    \/ LogicCopy
    \/ \E o \in WriteOutcomes : LogicFlushFull(o)
    \/ \E o \in WriteOutcomes : LogicFinalFlush(o)
    \/ \E o \in ConvertOutcomes : AnalogQueueEnter(o)
    \/ \E o \in WriteOutcomes : AnalogEndFlush(o)
    \/ AnalogEndDone
    \/ AnalogCopy
    \/ \E o \in WriteOutcomes : AnalogFlushFull(o)
    \/ \E o \in WriteOutcomes : AnalogFinalFlush(o)
    \/ Return

Spec == Init /\ [][Next]_vars

(***************************************************************************)
(* The layout model: every channel list of up to MaxChannels channels,     *)
(* initialised by an empty logic block.                                    *)
(***************************************************************************)
AllLayouts == {MkChannels(k) : k \in SeqsUpTo(ChannelKinds, MaxChannels)}

InitLayout == \E chs \in AllLayouts : InitState(chs)

NextLayout ==
    \/ \E u \in UnitSizes : ReceiveLogic(u, 0)
    \/ \E o \in DOMAIN CreateSteps : \E drv \in {-1} \cup Rates :
          \E stop \in 0..Len(channels) : DirCreate(CreateSteps[o], drv, stop)
    \/ LogicQueueEnter
    \/ LogicFinalFlush("ok")
    \/ Return

SpecLayout == InitLayout /\ [][NextLayout]_vars

(***************************************************************************)
(* The sizing model: dir_create() with the CHUNK_SIZE of the source, for   *)
(* devices of up to MaxLogicChannels logic channels.  Only the sizes are   *)
(* kept: the contents of the 4 MiB arrays are left out of the state.       *)
(***************************************************************************)
SizingLayouts ==
    {MkChannels(LogicKinds(nl, el) \o ak) :
        nl \in 0..MaxLogicChannels, el \in 0..MaxLogicChannels,
        ak \in {<<>>, <<"A+">>, <<"A-", "A+">>}}

InitSizing == \E chs \in SizingLayouts : InitState(chs)

\* dir_create() without a failure, srdir.c:72-257; the buffers are set up
\* as by srdir.c:212-236
DirCreateSizes ==
    /\ pc = "idle"
    /\ ~dir_created
    /\ fs' = CreateFs(channels, samplerate, "ok")
    /\ first_analog_index' = FirstAnalogIndex(channels)
    /\ analog_ch_count' = enabled_analog_channels(channels)
    /\ analog_index_map' = AnalogIndexMap(channels)
    /\ logic_buff' =
          [unit_size |-> UnitSize(channels),
           alloc_size |-> LogicAllocSize(CHUNK_SIZE, UnitSize(channels)),
           samples |-> <<>>,
           fill_size |-> 0,
           next_chunk_num |-> 1]
    /\ analog_buff' =
          [i \in 1..enabled_analog_channels(channels) |->
              [alloc_size |-> AnalogAllocSize(CHUNK_SIZE), samples |-> <<>>,
               fill_size |-> 0, next_chunk_num |-> 1]]
    /\ dir_created' = TRUE
    /\ hist' = [hist EXCEPT !.n_create = @ + 1]
    /\ UNCHANGED <<channels, samplerate, writes, pc, packet, loc, ret, pre>>

NextSizing == DirCreateSizes

SpecSizing == InitSizing /\ [][NextSizing]_vars

(***************************************************************************)
(* The chunk files, read back from the log of writer calls.                *)
(***************************************************************************)
IsChunk(w, base, ch_nr) == w.base = base /\ w.ch_nr = ch_nr

\* the calls of one chunk sequence, in time order
CallsOf(calls, base, ch_nr) ==
    SelectSeq(calls, LAMBDA w : IsChunk(w, base, ch_nr))

\* numbers of the chunk files of a sequence that exist, complete or not
FileNums(base, ch_nr) ==
    {w.num : w \in {v \in Range(writes) :
                       IsChunk(v, base, ch_nr) /\ v.status \in {"ok", "write"}}}

\* numbers of the chunk files that were written completely
ChunkNums(base, ch_nr) ==
    {w.num : w \in {v \in Range(writes) :
                       IsChunk(v, base, ch_nr) /\ v.status = "ok"}}

\* content of the complete chunk file n: what the last complete write left
FileData(base, ch_nr, n) ==
    LET is == {i \in DOMAIN writes :
                  /\ IsChunk(writes[i], base, ch_nr)
                  /\ writes[i].num = n
                  /\ writes[i].status = "ok"}
        last == CHOOSE i \in is : \A j \in is : j <= i
    IN  writes[last].data

RECURSIVE ConcatFiles(_, _, _)
\* the files with the numbers in nums, concatenated in ascending order
ConcatFiles(base, ch_nr, nums) ==
    IF nums = {} THEN <<>>
    ELSE LET n == CHOOSE m \in nums : \A k \in nums : m <= k
         IN  FileData(base, ch_nr, n) \o ConcatFiles(base, ch_nr, nums \ {n})

LogicFiles == ConcatFiles("logic-1", 0, ChunkNums("logic-1", 0))
AnalogFiles(nr) == ConcatFiles("analog-1", nr, ChunkNums("analog-1", nr))

\* receive() is about to return from a packet of the given type
Returned(type) == pc = "ret" /\ packet.type = type

\* the writer calls made since receive() was entered
NewCalls == SubSeq(writes, pre.nwrites + 1, Len(writes))

\* positions of the enabled analog channels in the channel list
EnabledAnalog ==
    {i \in DOMAIN channels :
        channels[i].type = "analog" /\ channels[i].enabled}

\* position of the k-th enabled analog channel, in declaration order
KthEnabledAnalog(k) ==
    CHOOSE i \in EnabledAnalog :
        Cardinality({j \in EnabledAnalog : j <= i}) = k

(***************************************************************************)
(* C1                                                                      *)
(***************************************************************************)
\* C1 (as stated): after a sequence of accepted logic blocks and END, with
\* no failure and a total byte length that is a multiple of unit_size, the
\* logic-1-<n> files concatenated in ascending n are the concatenation of
\* the input blocks.
C1_TotalMultiple ==
    (/\ Returned("end")
     /\ ret = "SR_OK"
     /\ ~hist.failed
     /\ Multiple(hist.logic_fed, logic_buff.unit_size))
    => LogicFiles = LogicData(0, hist.logic_fed)

\* C1 (amended): after a sequence of accepted logic blocks and END, with no
\* failure and every block's byte length a multiple of unit_size, the
\* logic-1-<n> files concatenated in ascending n are the concatenation of
\* the input blocks.
C1_LogicRoundTrip ==
    (/\ Returned("end")
     /\ ret = "SR_OK"
     /\ ~hist.failed
     /\ ~hist.ragged)
    => LogicFiles = LogicData(0, hist.logic_fed)

\* END returned after multi-byte samples went to two chunk files or more
C1_Witness ==
    /\ Returned("end")
    /\ ret = "SR_OK"
    /\ ~hist.failed
    /\ ~hist.ragged
    /\ logic_buff.unit_size > 1
    /\ Cardinality(ChunkNums("logic-1", 0)) >= 2
    /\ Len(LogicFiles) > logic_buff.alloc_size * logic_buff.unit_size

(***************************************************************************)
(* C2                                                                      *)
(***************************************************************************)
\* C2: after any interleaving of analog blocks and END, with no failure,
\* the floats of the analog-1-<nr>-<n> files of every enabled analog
\* channel, concatenated in ascending n, are the converted samples of the
\* blocks received for that channel, in arrival order.
C2_AnalogRoundTrip ==
    (/\ Returned("end")
     /\ ret = "SR_OK"
     /\ dir_created
     /\ ~hist.failed)
    => \A k \in 1..Cardinality(EnabledAnalog) :
          LET c == channels[KthEnabledAnalog(k)].index
          IN  AnalogFiles(first_analog_index + k - 1)
                 = sr_analog_to_float(AnalogData(c, 0, hist.analog_fed[c]))

\* END returned after two channels were fed, one of them more than a buffer
C2_Witness ==
    /\ Returned("end")
    /\ ret = "SR_OK"
    /\ ~hist.failed
    /\ \E c, d \in DOMAIN hist.analog_fed :
          /\ c /= d
          /\ hist.analog_fed[c] > AnalogAllocSize(ScaledChunkSize)
          /\ hist.analog_fed[d] > 0
    /\ \E k \in 1..analog_ch_count :
          Cardinality(ChunkNums("analog-1", first_analog_index + k - 1)) >= 2

(***************************************************************************)
(* C3                                                                      *)
(***************************************************************************)
\* C3: every call that reaches dir_append() or dir_append_analog() carries
\* at least one sample, so no chunk file of length 0 is created.
C3_NoEmptyChunk ==
    \A i \in DOMAIN writes : writes[i].length >= 1 /\ writes[i].status /= "empty"

\* an END that found every buffer empty, after chunks had been written
C3_Witness ==
    /\ Returned("end")
    /\ ret = "SR_OK"
    /\ pre.dir_created
    /\ writes /= <<>>
    /\ NewCalls = <<>>

(***************************************************************************)
(* C4                                                                      *)
(***************************************************************************)
\* C4 (as stated): the chunk numbers of every buffer start at 1 and the
\* files of each buffer are numbered 1..m, with no gap.
C4_ChunkNumbering ==
    dir_created =>
       /\ (CallsOf(writes, "logic-1", 0) = <<>> => logic_buff.next_chunk_num = 1)
       /\ FileNums("logic-1", 0) = 1..Cardinality(FileNums("logic-1", 0))
       /\ \A k \in 1..analog_ch_count :
             LET nr == first_analog_index + k - 1
             IN  /\ (CallsOf(writes, "analog-1", nr) = <<>>
                       => analog_buff[k].next_chunk_num = 1)
                 /\ FileNums("analog-1", nr)
                       = 1..Cardinality(FileNums("analog-1", nr))

(***************************************************************************)
(* C5                                                                      *)
(***************************************************************************)
\* buff, as it was when END arrived, was flushed to exactly one file that
\* holds its `size` elements, or not at all when it was empty
FlushedOnce(buff, size, base, ch_nr) ==
    LET calls == CallsOf(NewCalls, base, ch_nr)
    IN  IF buff.fill_size > 0
        THEN /\ Len(calls) = 1
             /\ calls[1].status = "ok"
             /\ calls[1].num = buff.next_chunk_num
             /\ calls[1].length = size
             /\ calls[1].data = Prefix(buff.samples, size)
             /\ \A i \in 1..pre.nwrites :
                   (IsChunk(writes[i], base, ch_nr) /\ writes[i].status = "ok")
                      => writes[i].num /= calls[1].num
        ELSE calls = <<>>

\* C5: when END is processed after initialisation and no write fails, every
\* non-empty buffer is written to exactly one new chunk file holding its
\* fill, every empty buffer writes nothing, and every fill is 0 afterwards.
C5_EndFlush ==
    (/\ Returned("end")
     /\ pre.dir_created
     /\ ret = "SR_OK")
    => /\ FlushedOnce(pre.logic_buff,
                      pre.logic_buff.fill_size * pre.logic_buff.unit_size,
                      "logic-1", 0)
       /\ logic_buff.fill_size = 0
       /\ \A k \in 1..analog_ch_count :
             /\ FlushedOnce(pre.analog_buff[k], pre.analog_buff[k].fill_size,
                            "analog-1", first_analog_index + k - 1)
             /\ analog_buff[k].fill_size = 0
       /\ \A i \in DOMAIN NewCalls :
             \/ IsChunk(NewCalls[i], "logic-1", 0)
             \/ \E k \in 1..analog_ch_count :
                   IsChunk(NewCalls[i], "analog-1", first_analog_index + k - 1)

\* END flushed the logic buffer and an analog buffer
C5_Witness ==
    /\ Returned("end")
    /\ pre.dir_created
    /\ ret = "SR_OK"
    /\ pre.logic_buff.fill_size > 0
    /\ \E k \in 1..analog_ch_count : pre.analog_buff[k].fill_size > 0

(***************************************************************************)
(* C6                                                                      *)
(***************************************************************************)
\* fill is within the capacity, and the filled part within the array
Bounded(buff, unit) ==
    /\ 0 <= buff.fill_size
    /\ buff.fill_size <= buff.alloc_size
    /\ buff.fill_size * unit <= Len(buff.samples)

\* C6: in every state, inside the copy/flush loops and after a failed chunk
\* write too, the logic buffer and every analog buffer have
\* 0 <= fill <= capacity.
C6_FillBound ==
    /\ Bounded(logic_buff, logic_buff.unit_size)
    /\ \A k \in DOMAIN analog_buff : Bounded(analog_buff[k], 1)

\* a failed chunk write has left a full buffer behind
C6_Witness ==
    /\ pc = "ret"
    /\ ret = "SR_ERR"
    /\ NewCalls /= <<>>
    /\ writes[Len(writes)].status \in {"open", "write"}
    /\ \/ /\ logic_buff.alloc_size > 0
          /\ logic_buff.fill_size = logic_buff.alloc_size
       \/ \E k \in DOMAIN analog_buff :
             /\ analog_buff[k].alloc_size > 0
             /\ analog_buff[k].fill_size = analog_buff[k].alloc_size

(***************************************************************************)
(* C7                                                                      *)
(***************************************************************************)
\* the logic buffer as the block found it
LogicBuffAtEntry ==
    IF pre.dir_created THEN pre.logic_buff
    ELSE InitLogicBuff(channels, ScaledChunkSize, "ok")

\* the block was turned down with an argument error and changed nothing
Rejected ==
    /\ ret = "SR_ERR_ARG"
    /\ NewCalls = <<>>
    /\ logic_buff = LogicBuffAtEntry

\* C7 (as stated): a logic block of any length whose unit size is not the
\* buffer's gets an argument error, writes no chunk file and leaves the
\* logic buffer as it was.
C7_AnyLength ==
    (/\ Returned("logic")
     /\ dir_created
     /\ packet.unitsize /= logic_buff.unit_size)
    => Rejected

\* C7 (amended): a logic block of non-zero length whose unit size is not
\* the buffer's gets an argument error, writes no chunk file and leaves the
\* logic buffer as it was; an empty block with another unit size returns
\* success and leaves the logic buffer as it was.
C7_UnitSizeMismatch ==
    (/\ Returned("logic")
     /\ dir_created
     /\ packet.unitsize /= logic_buff.unit_size)
    => IF packet.length /= 0
       THEN Rejected
       ELSE /\ ret = "SR_OK"
            /\ NewCalls = <<>>
            /\ logic_buff = LogicBuffAtEntry

\* a non-empty block with another unit size met a partly filled buffer
C7_Witness ==
    /\ Returned("logic")
    /\ pre.dir_created
    /\ packet.unitsize /= logic_buff.unit_size
    /\ packet.length /= 0
    /\ pre.logic_buff.fill_size > 0
    /\ ret = "SR_ERR_ARG"

(***************************************************************************)
(* C8                                                                      *)
(***************************************************************************)
\* C8: as long as only META and END packets were fed, the session is not
\* initialised, no directory or file exists, no buffer was flushed and
\* every packet returned SR_OK.
C8_LazyInit ==
    ~hist.sampled =>
       /\ ~dir_created
       /\ fs = InitialFs
       /\ writes = <<>>
       /\ logic_buff = ZeroLogicBuff
       /\ analog_buff = <<>>
       /\ pc \in {"idle", "ret"}
       /\ pc = "ret" => ret = "SR_OK"

\* END returns after a META packet that set the sample rate
C8_Witness ==
    /\ Returned("end")
    /\ ~hist.sampled
    /\ samplerate /= 0
    /\ hist.n_packets >= 2

(***************************************************************************)
(* C9                                                                      *)
(***************************************************************************)
\* C9: with L logic channels, E of them enabled, and A enabled analog
\* channels, first_analog_index is L + 1 if E > 0 and 1 otherwise,
\* analog_ch_count is A, the enabled analog channels get the numbers
\* first_analog_index .. first_analog_index + A - 1 in declaration order,
\* and analog_index_map[k] is the index of the k-th enabled analog channel.
C9_ChannelLayout ==
    LET L == Cardinality({i \in DOMAIN channels : channels[i].type = "logic"})
        E == Cardinality({i \in DOMAIN channels :
                             channels[i].type = "logic" /\ channels[i].enabled})
        A == Cardinality(EnabledAnalog)
        first == IF E > 0 THEN L + 1 ELSE 1
    IN  dir_created =>
           /\ first_analog_index = first
           /\ analog_ch_count = A
           /\ analog_index_map =
                 [k \in 1..A |-> channels[KthEnabledAnalog(k)].index]
           /\ SelectSeq(fs.metadata.channels, LAMBDA e : e.key = "analog") =
                 [k \in 1..A |->
                     [key   |-> "analog",
                      nr    |-> first + k - 1,
                      index |-> channels[KthEnabledAnalog(k)].index]]

\* initialised with a disabled logic channel next to an enabled one and a
\* disabled analog channel declared before an enabled one
C9_Witness ==
    /\ dir_created
    /\ enabled_logic_channels(channels) > 0
    /\ logic_channels(channels) > enabled_logic_channels(channels)
    /\ \E i, j \in DOMAIN channels :
          /\ i < j
          /\ channels[i].type = "analog" /\ ~channels[i].enabled
          /\ j \in EnabledAnalog

(***************************************************************************)
(* C10                                                                     *)
(***************************************************************************)
\* the step leaves the buffer's allocation alone, and empties it only by
\* writing it to a chunk file
NotReinitialised(old, new) ==
    /\ new.alloc_size = old.alloc_size
    /\ Len(new.samples) = Len(old.samples)
    /\ new.next_chunk_num >= old.next_chunk_num
    /\ new.fill_size < old.fill_size =>
          /\ new.fill_size = 0
          /\ Len(writes') = Len(writes) + 1
          /\ writes'[Len(writes')].status = "ok"

\* C10: once dir_create() has succeeded, dir_created stays TRUE and no
\* later step calls dir_create(), touches the directory, "version" or
\* "metadata", reallocates a buffer or resets a fill or a chunk number.
C10_OneShot ==
    [][dir_created =>
          /\ dir_created'
          /\ hist'.n_create = hist.n_create
          /\ fs' = fs
          /\ first_analog_index' = first_analog_index
          /\ analog_ch_count' = analog_ch_count
          /\ analog_index_map' = analog_index_map
          /\ logic_buff'.unit_size = logic_buff.unit_size
          /\ NotReinitialised(logic_buff, logic_buff')
          /\ DOMAIN analog_buff' = DOMAIN analog_buff
          /\ \A k \in DOMAIN analog_buff :
                NotReinitialised(analog_buff[k], analog_buff'[k])]_vars

\* after initialisation and chunk writes, a META packet has changed the
\* sample rate
C10_Witness ==
    /\ dir_created
    /\ hist.n_create = 1
    /\ writes /= <<>>
    /\ fs.metadata.samplerate /= samplerate

(***************************************************************************)
(* C11                                                                     *)
(***************************************************************************)
\* dir_create() has run and failed
InitFailed == hist.n_create >= 1 /\ ~dir_created

\* C11 (as stated): when dir_create() fails the error is returned, and from
\* then on no step runs dir_create() again or writes a chunk file.
C11_FailedIsTerminal ==
    [][/\ (hist'.n_create > hist.n_create /\ ~dir_created')
          => ret' \in {"SR_ERR", "SR_ERR_MALLOC"}
       /\ InitFailed
          => (hist'.n_create = hist.n_create /\ fs' = fs /\ writes' = writes)]_vars

(***************************************************************************)
(* C12                                                                     *)
(***************************************************************************)
\* C12 (as stated): no two write attempts on the same buffer carry the same
\* chunk number, whether the earlier one succeeded or failed.
C12_NumberNeverReused ==
    \A i, j \in DOMAIN writes :
       (/\ i < j
        /\ writes[i].base = writes[j].base
        /\ writes[i].ch_nr = writes[j].ch_nr)
       => writes[i].num /= writes[j].num

(***************************************************************************)
(* C13                                                                     *)
(***************************************************************************)
\* C13 (as stated): in the Ready state an analog packet that names no
\* channel or several is turned down with the error code for "not
\* supported" (SR_ERR_NA), not the generic SR_ERR, and changes no buffer
\* and writes no chunk file.
C13_MultiChannelUnsupported ==
    (/\ Returned("analog")
     /\ pre.dir_created
     /\ Len(packet.channels) /= 1)
    => /\ ret = "SR_ERR_NA"
       /\ NewCalls = <<>>
       /\ logic_buff = pre.logic_buff
       /\ analog_buff = pre.analog_buff

(***************************************************************************)
(* C14                                                                     *)
(***************************************************************************)
\* the analog buffers as the packet found them
AnalogBuffAtEntry ==
    IF pre.dir_created THEN pre.analog_buff
    ELSE InitAnalogBuff(enabled_analog_channels(channels), ScaledChunkSize,
                        enabled_analog_channels(channels))

\* the single channel of the packet is not an enabled analog channel
Unmapped ==
    /\ Len(packet.channels) = 1
    /\ \A i \in DOMAIN channels :
          channels[i].index = packet.channels[1]
             => ~(channels[i].type = "analog" /\ channels[i].enabled)

\* C14: an analog packet whose single channel is not in analog_index_map
\* (a disabled analog channel, a logic channel) returns SR_ERR_ARG, writes
\* no chunk file and leaves every buffer as it was.
C14_UnmappedChannel ==
    (/\ Returned("analog")
     /\ dir_created
     /\ Unmapped)
    => /\ ret = "SR_ERR_ARG"
       /\ NewCalls = <<>>
       /\ logic_buff = LogicBuffAtEntry
       /\ analog_buff = AnalogBuffAtEntry

\* a block for a disabled analog channel met a partly filled analog buffer
C14_Witness ==
    /\ Returned("analog")
    /\ pre.dir_created
    /\ Unmapped
    /\ packet.num_samples > 0
    /\ \E i \in DOMAIN channels :
          /\ channels[i].index = packet.channels[1]
          /\ channels[i].type = "analog"
    /\ \E k \in DOMAIN analog_buff : analog_buff[k].fill_size > 0
    /\ ret = "SR_ERR_ARG"

(***************************************************************************)
(* C15                                                                     *)
(***************************************************************************)
\* a block of n samples met a buffer of capacity C holding f samples: the
\* calls made are (f + n - 1) div C full chunks of `unit` array elements
\* per sample, and `fill` is what is left
ClosedForm(C, f, n, unit, calls, fill) ==
    /\ Len(calls) = (f + n - 1) \div C
    /\ \A i \in DOMAIN calls :
          calls[i].status = "ok" /\ calls[i].length = C * unit
    /\ fill = ((f + n - 1) % C) + 1

\* slot (1-based) of the enabled analog channel with the given index
SlotOf(index) ==
    CHOOSE k \in 1..Cardinality(EnabledAnalog) :
        channels[KthEnabledAnalog(k)].index = index

\* receive() is inside the copy/flush loop of a queue function
InQueueLoop == pc \in {"lq_loop", "lq_full", "aq_loop", "aq_full"}

\* the buffer the loop is filling has no room left
LoopBufferFull ==
    IF pc \in {"lq_loop", "lq_full"}
    THEN logic_buff.fill_size = logic_buff.alloc_size
    ELSE analog_buff[loc.idx + 1].fill_size
            = analog_buff[loc.idx + 1].alloc_size

\* a natural number that every step of the loop makes smaller
LoopRank ==
    IF ~InQueueLoop THEN 0
    ELSE IF pc \in {"lq_full", "aq_full"} THEN 4 * loc.send_size + 5
    ELSE IF loc.send_size = 0 THEN 0
    ELSE IF LoopBufferFull THEN 4 * loc.send_size + 6
    ELSE 4 * loc.send_size + 2

\* the result of queuing a block, at the return of receive()
QueueResult ==
    /\ (/\ Returned("logic")
        /\ ret = "SR_OK"
        /\ logic_buff.unit_size > 0
        /\ packet.length \div logic_buff.unit_size >= 1)
       => /\ CallsOf(NewCalls, "logic-1", 0) = NewCalls
          /\ ClosedForm(LogicBuffAtEntry.alloc_size, LogicBuffAtEntry.fill_size,
                        packet.length \div logic_buff.unit_size,
                        logic_buff.unit_size, NewCalls, logic_buff.fill_size)
    /\ (/\ Returned("analog")
        /\ ret = "SR_OK")
       => LET k == SlotOf(packet.channels[1])
          IN  /\ CallsOf(NewCalls, "analog-1", first_analog_index + k - 1)
                    = NewCalls
              /\ ClosedForm(AnalogBuffAtEntry[k].alloc_size,
                            AnalogBuffAtEntry[k].fill_size,
                            packet.num_samples, 1, NewCalls,
                            analog_buff[k].fill_size)

\* C15: queuing n >= 1 samples into a buffer of capacity C >= 1 with fill f,
\* without write failure, terminates (every step of the loop lowers
\* LoopRank), writes exactly (f + n - 1) div C chunk files of C samples
\* each and leaves fill = ((f + n - 1) mod C) + 1; a buffer that becomes
\* exactly full stays full and unflushed.
C15_QueueClosedForm ==
    /\ []QueueResult
    /\ [][(InQueueLoop /\ InQueueLoop') => LoopRank' < LoopRank]_vars

\* a block made a partly filled buffer exactly full, and it was not flushed
C15_Witness ==
    /\ Returned("analog")
    /\ ret = "SR_OK"
    /\ NewCalls = <<>>
    /\ LET k == SlotOf(packet.channels[1])
       IN  /\ AnalogBuffAtEntry[k].fill_size > 0
           /\ analog_buff[k].fill_size = analog_buff[k].alloc_size

(***************************************************************************)
(* C16                                                                     *)
(***************************************************************************)
RECURSIVE ConcatData(_)
\* the data of the calls, concatenated in order
ConcatData(calls) ==
    IF calls = <<>> THEN <<>>
    ELSE Head(calls).data \o ConcatData(Tail(calls))

\* the logic bytes written to chunk files so far followed by the bytes
\* waiting in the buffer
StoredLogic(calls, buff) ==
    ConcatData(SelectSeq(CallsOf(calls, "logic-1", 0),
                         LAMBDA w : w.status = "ok"))
       \o Prefix(buff.samples, buff.fill_size * buff.unit_size)

\* C16: a logic block of n bytes with the configured unit size u > 0
\* returns SR_OK when no write fails and appends exactly the first
\* floor(n / u) * u of its bytes to the written-or-buffered logic data;
\* with n not a multiple of u the trailing n mod u bytes are stored nowhere
\* and the bytes of later blocks follow directly.
C16_RaggedTruncation ==
    (/\ Returned("logic")
     /\ dir_created
     /\ logic_buff.unit_size > 0
     /\ packet.unitsize = logic_buff.unit_size
     /\ \A i \in DOMAIN NewCalls : NewCalls[i].status = "ok")
    => /\ ret = "SR_OK"
       /\ StoredLogic(writes, logic_buff) =
             StoredLogic(SubSeq(writes, 1, pre.nwrites), LogicBuffAtEntry)
                \o Prefix(packet.data,
                          (packet.length \div logic_buff.unit_size)
                             * logic_buff.unit_size)

\* a block of three bytes with unit size 2 was added behind buffered data
C16_Witness ==
    /\ Returned("logic")
    /\ ret = "SR_OK"
    /\ pre.dir_created
    /\ packet.unitsize = logic_buff.unit_size
    /\ logic_buff.unit_size > 1
    /\ packet.length > logic_buff.unit_size
    /\ packet.length % logic_buff.unit_size /= 0
    /\ pre.logic_buff.fill_size > 0
    /\ hist.ragged

(***************************************************************************)
(* C17                                                                     *)
(***************************************************************************)
\* the floats that the samples fed for the channel with index c convert to
ConvertedOf(c) ==
    {sr_analog_to_float(<<RawSample(c, p)>>)[1] : p \in 1..hist.analog_fed[c]}

\* the packet's single channel is an enabled analog channel
Mapped ==
    /\ Len(packet.channels) = 1
    /\ \E i \in EnabledAnalog : channels[i].index = packet.channels[1]

\* C17: the number N of the key analog<N> that the metadata records for an
\* enabled analog channel is the number in the names analog-1-<N>-<n> of
\* the files that get its samples, and a block of that channel changes
\* only the channel's own buffer and files, not the logic buffer or
\* another analog buffer.
C17_NumberingConsistent ==
    (/\ Returned("analog")
     /\ dir_created
     /\ Mapped)
    => LET c == packet.channels[1]
           keys == SelectSeq(fs.metadata.channels,
                             LAMBDA e : e.key = "analog" /\ e.index = c)
           k == SlotOf(c)
       IN  /\ Len(keys) = 1
           /\ \A i \in DOMAIN NewCalls :
                 /\ NewCalls[i].base = "analog-1"
                 /\ NewCalls[i].ch_nr = keys[1].nr
                 /\ Range(NewCalls[i].data) \subseteq ConvertedOf(c)
           /\ Range(Prefix(analog_buff[k].samples, analog_buff[k].fill_size))
                 \subseteq ConvertedOf(c)
           /\ logic_buff = LogicBuffAtEntry
           /\ \A j \in DOMAIN analog_buff :
                 j /= k => analog_buff[j] = AnalogBuffAtEntry[j]

\* a block was written to chunk files while another analog buffer held
\* samples
C17_Witness ==
    /\ Returned("analog")
    /\ dir_created
    /\ Mapped
    /\ ret = "SR_OK"
    /\ NewCalls /= <<>>
    /\ \E j \in DOMAIN analog_buff :
          /\ j /= SlotOf(packet.channels[1])
          /\ analog_buff[j].fill_size > 0

(***************************************************************************)
(* C18                                                                     *)
(***************************************************************************)
\* the buffer that the writer call w was made for
BuffOf(w) ==
    IF w.base = "logic-1" THEN logic_buff
    ELSE analog_buff[w.ch_nr - first_analog_index + 1]

\* array elements per sample of the buffer that w was made for
UnitOf(w) == IF w.base = "logic-1" THEN logic_buff.unit_size ELSE 1

\* the buffers that the END flush had not reached when the call w failed
\* are as END found them
LaterBuffersKept(w) ==
    IF w.base = "logic-1" THEN analog_buff = pre.analog_buff
    ELSE \A j \in DOMAIN analog_buff :
            j > w.ch_nr - first_analog_index + 1
               => analog_buff[j] = pre.analog_buff[j]

\* C18: when a chunk write fails, receive() returns SR_ERR at once: the
\* failed call is the last writer call of the event, the fill of its buffer
\* is not reset, at END the buffers not yet flushed stay as they were, and
\* the failed call did not touch a chunk file written before.
C18_AbortOnWriteFailure ==
    pre.taken =>
       \A i \in DOMAIN NewCalls :
          NewCalls[i].status \in {"open", "write"} =>
             /\ i = Len(NewCalls)
             /\ pc = "ret"
             /\ ret = "SR_ERR"
             /\ BuffOf(NewCalls[i]).fill_size > 0
             /\ BuffOf(NewCalls[i]).fill_size * UnitOf(NewCalls[i])
                   = NewCalls[i].length
             /\ packet.type = "end" => LaterBuffersKept(NewCalls[i])
             /\ \A j \in 1..pre.nwrites :
                   (/\ IsChunk(writes[j], NewCalls[i].base, NewCalls[i].ch_nr)
                    /\ writes[j].status = "ok")
                   => writes[j].num /= NewCalls[i].num

\* the flush of the logic buffer failed at END while an analog buffer held
\* samples
C18_Witness ==
    /\ Returned("end")
    /\ ret = "SR_ERR"
    /\ NewCalls /= <<>>
    /\ NewCalls[Len(NewCalls)].base = "logic-1"
    /\ NewCalls[Len(NewCalls)].status \in {"open", "write"}
    /\ \E k \in DOMAIN analog_buff : analog_buff[k].fill_size > 0

(***************************************************************************)
(* C19                                                                     *)
(***************************************************************************)
\* unit_size is the least number of bytes that hold L bits
UnitIsCeil(unit, L) ==
    /\ unit * BitsPerUnitByte >= L
    /\ (unit - 1) * BitsPerUnitByte < L

\* every analog buffer holds CHUNK_SIZE / 4 floats
AnalogCapacity ==
    \A k \in DOMAIN analog_buff :
       analog_buff[k].alloc_size * SizeofFloat = CHUNK_SIZE

\* C19 as stated: with at least one logic channel, unit_size is
\* ceil(L / 8), the logic capacity times unit_size is exactly 4194304
\* bytes, and the analog capacity is 4194304 / 4 floats.
C19_ExactBudget ==
    (dir_created /\ logic_channels(channels) >= 1)
    => /\ UnitIsCeil(logic_buff.unit_size, logic_channels(channels))
       /\ logic_buff.alloc_size * logic_buff.unit_size = CHUNK_SIZE
       /\ AnalogCapacity

\* C19, amended: with at least one logic channel, unit_size is ceil(L / 8)
\* and the logic capacity is the largest number of whole samples that fit
\* into 4194304 bytes, which fills the 4 MiB exactly only when unit_size
\* divides 4194304; the analog capacity is 4194304 / 4 floats.
C19_BufferSizing ==
    (dir_created /\ logic_channels(channels) >= 1)
    => /\ UnitIsCeil(logic_buff.unit_size, logic_channels(channels))
       /\ logic_buff.alloc_size * logic_buff.unit_size <= CHUNK_SIZE
       /\ (logic_buff.alloc_size + 1) * logic_buff.unit_size > CHUNK_SIZE
       /\ (CHUNK_SIZE % logic_buff.unit_size = 0)
             <=> (logic_buff.alloc_size * logic_buff.unit_size = CHUNK_SIZE)
       /\ AnalogCapacity

\* a device whose samples are three bytes wide, with an analog buffer
C19_Witness ==
    /\ dir_created
    /\ logic_channels(channels) >= 1
    /\ logic_buff.unit_size = 3
    /\ logic_buff.alloc_size * logic_buff.unit_size < CHUNK_SIZE
    /\ analog_buff /= <<>>

(***************************************************************************)
(* C20                                                                     *)
(***************************************************************************)
HasCapturefile == fs.metadata.capturefile = "logic-1"
HasTotalProbes == fs.metadata.total_probes /= -1
HasUnitsize == fs.metadata.unitsize /= -1

\* the conditions of the single keys
KeyConditions ==
    /\ HasCapturefile <=> enabled_logic_channels(channels) > 0
    /\ HasTotalProbes <=> enabled_logic_channels(channels) > 0
    /\ HasTotalProbes => fs.metadata.total_probes = logic_channels(channels)
    /\ HasUnitsize <=> logic_buff.unit_size > 0
    /\ HasUnitsize => fs.metadata.unitsize = logic_buff.unit_size
    /\ fs.metadata.total_analog = enabled_analog_channels(channels)

\* C20 as stated: the keys follow their conditions, so capturefile, total
\* probes and unitsize are either all present or all absent.
C20_AllOrNone ==
    dir_created
    => /\ KeyConditions
       /\ \/ HasCapturefile /\ HasTotalProbes /\ HasUnitsize
          \/ ~HasCapturefile /\ ~HasTotalProbes /\ ~HasUnitsize

\* C20, amended: capturefile=logic-1 and total probes (the total logic
\* channel count) are present iff a logic channel is enabled, unitsize iff
\* the unit size is > 0, total analog always; the three logic keys are all
\* present with an enabled logic channel, all absent without any logic
\* channel, and unitsize stands alone when there are logic channels none
\* of which is enabled.
C20_ConditionalKeys ==
    dir_created
    => /\ KeyConditions
       /\ enabled_logic_channels(channels) > 0
             => HasCapturefile /\ HasTotalProbes /\ HasUnitsize
       /\ logic_channels(channels) = 0
             => ~HasCapturefile /\ ~HasTotalProbes /\ ~HasUnitsize
       /\ (logic_channels(channels) > 0 /\ enabled_logic_channels(channels) = 0)
             => ~HasCapturefile /\ ~HasTotalProbes /\ HasUnitsize

\* metadata of a device with logic channels none of which is enabled, and
\* of a device with an enabled and a disabled logic channel
C20_Witness ==
    /\ dir_created
    /\ \/ logic_channels(channels) > 0 /\ enabled_logic_channels(channels) = 0
       \/ /\ enabled_logic_channels(channels) > 0
          /\ logic_channels(channels) > enabled_logic_channels(channels)
          /\ enabled_analog_channels(channels) > 0

====
